---- MODULE Spec2Model ----
(***************************************************************************)
(* Model of main.py: a tkinter window, a watchdog observer and daemon      *)
(* worker threads that transcribe media files and record their absolute    *)
(* paths in the JSON ledger processed_files.json.  session.json, which the  *)
(* program writes and never uses, is left out.                             *)
(*                                                                         *)
(* Strings are sequences of one-character strings, so that lower(),        *)
(* endswith(), rsplit(), basename() and join() are computed as the code    *)
(* computes them.                                                          *)
(***************************************************************************)
EXTENDS Integers, Sequences, FiniteSets, Bags, TLC

VARIABLES
    running,         \* the process (root.mainloop) is alive
    terminating,     \* root.after(2000, root.destroy) is pending
    fs,              \* directory entries on disk: [path, is_directory]
    ledger,          \* processed_files.json on disk: [state, content]
    transcripts,     \* transcript files on disk: [path, name, file_path]
    file_lock,       \* TRUE while a thread is inside 'with file_lock:'
    workers,         \* the bag of live transcribe_audio threads
    observers,       \* the running Observers, in the order they were started
    observer,        \* the global 'observer': its index in observers, or 0
                     \* when it is unbound or refers to a stopped Observer
    events,          \* created-events queued in the observers
    stop_button,     \* state of the Stop Monitoring button
    progress_label,  \* text of the progress label
    progress_bar,    \* TRUE while the indeterminate bar is running
    log_text         \* the log widget: the line inserted last (kind, arg)
                     \* and the names its 'Error processing' lines hold

vars == <<running, terminating, fs, ledger, transcripts, file_lock,
          workers, observers, observer, events, stop_button,
          progress_label, progress_bar, log_text>>

(***************************************************************************)
(* Bounds of the model.                                                    *)
(***************************************************************************)
\* worker threads alive at one time
MaxWorkers == 2
\* Observers running at one time
MaxObservers == 2

(***************************************************************************)
(* Strings.                                                                *)
(***************************************************************************)
UpperCase == <<"A","B","C","D","E","F","G","H","I","J","K","L","M",
               "N","O","P","Q","R","S","T","U","V","W","X","Y","Z">>
LowerCase == <<"a","b","c","d","e","f","g","h","i","j","k","l","m",
               "n","o","p","q","r","s","t","u","v","w","x","y","z">>

\* str.lower() on one character
LowerChar(c) ==
    IF \E i \in 1..26 : UpperCase[i] = c
    THEN LowerCase[CHOOSE i \in 1..26 : UpperCase[i] = c]
    ELSE c

\* str.lower()
Lower(s) == [i \in 1..Len(s) |-> LowerChar(s[i])]

\* s.endswith(suffix) for one suffix
EndsWithOne(s, suffix) ==
    /\ Len(s) >= Len(suffix)
    /\ SubSeq(s, Len(s) - Len(suffix) + 1, Len(s)) = suffix

\* s.endswith(suffixes) for a tuple of suffixes
EndsWith(s, suffixes) == \E i \in 1..Len(suffixes) : EndsWithOne(s, suffixes[i])

SUPPORTED_FORMATS ==
    << <<".","m","p","3">>, <<".","w","a","v">>, <<".","m","p","4">>,
       <<".","m","k","v">>, <<".","m","o","v">>, <<".","f","l","v">>,
       <<".","a","a","c">>, <<".","m","4","a">> >>

\* positions of character c in s
Positions(s, c) == {i \in 1..Len(s) : s[i] = c}

Max(S) == CHOOSE x \in S : \A y \in S : y <= x

\* os.path.basename(p): what follows the last "/"
Basename(p) ==
    IF Positions(p, "/") = {} THEN p
    ELSE SubSeq(p, Max(Positions(p, "/")) + 1, Len(p))

\* os.path.dirname(p): what precedes the last "/" (the root stays "/")
Dirname(p) ==
    IF Positions(p, "/") = {} THEN <<>>
    ELSE IF Max(Positions(p, "/")) = 1 THEN <<"/">>
    ELSE SubSeq(p, 1, Max(Positions(p, "/")) - 1)

\* os.path.join(a, b)
Join(a, b) ==
    IF Len(b) > 0 /\ b[1] = "/" THEN b
    ELSE IF a = <<>> \/ a[Len(a)] = "/" THEN a \o b
    ELSE a \o <<"/">> \o b

\* the working directory of the process
Cwd == <<"/","w">>

\* os.path.abspath(p): an absolute path is kept, a relative one is joined to
\* the working directory (the paths of the model hold no "." or ".." parts)
Abspath(p) == IF Len(p) > 0 /\ p[1] = "/" THEN p ELSE Join(Cwd, p)

\* name.rsplit('.', 1)[0]
RSplitDot(name) ==
    IF Positions(name, ".") = {} THEN name
    ELSE SubSeq(name, 1, Max(Positions(name, ".")) - 1)

TranscriptionsDir == <<"T","r","a","n","s","c","r","i","p","t","i","o","n","s">>
TranscriptionSuffix ==
    <<"_","t","r","a","n","s","c","r","i","p","t","i","o","n",".","t","x","t">>

\* the transcript path transcribe_audio computes for a media path
TranscriptPath(file_path) ==
    Join(Join(Dirname(file_path), TranscriptionsDir),
         RSplitDot(Basename(file_path)) \o TranscriptionSuffix)

\* d is directory p or an ancestor of it (a recursive watch of d covers p)
Under(p, d) ==
    /\ Len(p) > Len(d)
    /\ SubSeq(p, 1, Len(d)) = d
    /\ p[Len(d) + 1] = "/"

(***************************************************************************)
(* The directory entries that may come to exist on disk.                   *)
(***************************************************************************)
MediaRoot == <<"/","m">>
SubDir    == <<"/","m","/","s",".","m","p","3">>

Entries ==
    { [path |-> <<"/","m","/","n",".","t","x","t">>,   is_directory |-> FALSE],
      [path |-> SubDir,                                is_directory |-> TRUE],
      [path |-> SubDir \o <<"/","a",".","m","p","3">>, is_directory |-> FALSE],
      [path |-> SubDir \o <<"/","a",".","W","A","V">>, is_directory |-> FALSE] }

\* what filedialog.askdirectory() can return; <<>> is a cancelled dialog
Choices == {<<>>, MediaRoot}


(***************************************************************************)
(* Widget texts and log lines.                                             *)
(***************************************************************************)
Text(kind, arg) == [kind |-> kind, arg |-> arg]
Ready == Text("Ready", <<>>)
\* the log of a window just built
NoLine == [kind |-> "", arg |-> <<>>, errors |-> {}]

\* log_text.insert(tk.END, line): the lines before it stay in the widget
LogInsert(log, line) ==
    [kind   |-> line.kind,
     arg    |-> line.arg,
     errors |-> IF line.kind = "Error processing"
                THEN log.errors \cup {line.arg}
                ELSE log.errors]

(***************************************************************************)
(* The ledger file processed_files.json.  Its state is "absent" (never     *)
(* written), "complete" (a JSON list) or "truncated" (opened with mode "w" *)
(* and not yet dumped).  json.dump(list(s)) writes the set as a list, in   *)
(* the order the set is iterated, and set(json.load(f)) reads the list     *)
(* back as a set.                                                          *)
(***************************************************************************)
NoLedger == [state |-> "absent", content |-> <<>>]

\* list(s): the elements of the set, each once, in the order of iteration
RECURSIVE ListOf(_)
ListOf(s) ==
    IF s = {} THEN <<>>
    ELSE LET x == CHOOSE y \in s : TRUE IN <<x>> \o ListOf(s \ {x})

\* set(json.load(f))
SetOfList(q) == {q[i] : i \in 1..Len(q)}

\* os.path.exists(PROCESSED_FILES_LOG)
LedgerExists == ledger.state # "absent"

\* json.load(f) raises on a file that is not a complete JSON document
LedgerLoads == ledger.state = "complete"

(***************************************************************************)
(* Initial state: the window is built, nothing is on disk yet.             *)
(***************************************************************************)
Init ==
    /\ running = TRUE
    /\ terminating = FALSE
    /\ fs = {}
    /\ ledger = NoLedger
    /\ transcripts = {}
    /\ file_lock = FALSE
    /\ workers = EmptyBag
    /\ observers = <<>>
    /\ observer = 0
    /\ events = {}
    /\ stop_button = "disabled"
    /\ progress_label = Ready
    /\ progress_bar = FALSE
    /\ log_text = NoLine

disk == <<fs, ledger, transcripts>>
ui   == <<stop_button, progress_label, progress_bar, log_text>>

(***************************************************************************)
(* Threads.  A thread is a record [file_path, pc, processed_files]; the    *)
(* threads that have returned are no longer in the bag.                    *)
(***************************************************************************)
\* threading.Thread(target=transcribe_audio, args=(file_path, ...)).start()
NewWorker(file_path) ==
    [file_path |-> file_path, pc |-> "check", processed_files |-> {}]

Started(ws, paths) == ws (+) SetToBag({NewWorker(f) : f \in paths})

Live == BagToSet(workers)

(***************************************************************************)
(* select_directory, the Browse button.                                    *)
(***************************************************************************)
\* ScanFiles with the lower() of line 126 left out
ScanFilesCaseSensitive(directory) ==
    { Abspath(Join(Dirname(e.path), Basename(e.path))) :
        e \in { x \in fs : /\ ~x.is_directory
                           /\ Under(x.path, directory)
                           /\ EndsWith(Basename(x.path), SUPPORTED_FORMATS) } }

\* the list 'files' of line 126: os.walk(directory), supported names only
ScanFiles(directory) ==
    { Abspath(Join(Dirname(e.path), Basename(e.path))) :
        e \in { x \in fs : /\ ~x.is_directory
                           /\ Under(x.path, directory)
                           /\ EndsWith(Lower(Basename(x.path)), SUPPORTED_FORMATS) } }

\* the files of the scan a worker is started for (lines 133-136)
NewFiles(files, processed_files) == {f \in files : f \notin processed_files}

\* the directories the dialog can return now: those that exist
Selectable ==
    {d \in Choices : d \in {<<>>, MediaRoot} \/ [path |-> d, is_directory |-> TRUE] \in fs}

\* start_observer: a new Observer watching 'directory' recursively
NewObserver(directory) == [directory |-> directory]

\* lines 118-151 with the ledger loaded as processed_files
SelectScan(directory, processed_files) ==
    LET files == ScanFiles(directory)
        new   == NewFiles(files, processed_files)
        scanning == LogInsert(log_text, Text("Scanning directory", directory))
    IN  /\ BagCardinality(workers) + Cardinality(new) <= MaxWorkers
        /\ Len(observers) < MaxObservers
        /\ workers' = Started(workers, new)
        /\ log_text' =
             IF files = {}
             THEN LogInsert(scanning, Text("No media files found", <<>>))
             ELSE IF new = {}
             THEN LogInsert(scanning, Text("No new files found", <<>>))
             ELSE scanning
        /\ progress_label' =
             IF new = {} THEN Ready ELSE Text("Scanning files...", <<>>)
        /\ observers' = Append(observers, NewObserver(directory))
        /\ observer' = Len(observers) + 1
        /\ stop_button' = "normal"
        /\ UNCHANGED <<running, terminating, disk, file_lock, events, progress_bar>>

\* load_processed_files raises in line 123: the handler ends there
SelectFails(directory) ==
    /\ log_text' = LogInsert(log_text, Text("Scanning directory", directory))
    /\ progress_label' = Text("Scanning files...", <<>>)
    /\ UNCHANGED <<running, terminating, disk, file_lock, workers, observers,
                   observer, events, stop_button, progress_bar>>

\* the handler waits for file_lock when the ledger exists
SelectDirectory(directory) ==
    /\ running
    /\ directory \in Selectable
    /\ IF directory = <<>>
       THEN UNCHANGED vars
       ELSE IF ~LedgerExists
       THEN SelectScan(directory, {})
       ELSE /\ ~file_lock
            /\ IF LedgerLoads
               THEN SelectScan(directory, SetOfList(ledger.content))
               ELSE SelectFails(directory)

(***************************************************************************)
(* stop_observer, the Stop Monitoring button (enabled only in state        *)
(* NORMAL).  observer.stop() and join() end the thread of the global       *)
(* observer, which is the one started last; the events it had queued are   *)
(* never dispatched.                                                       *)
(***************************************************************************)
\* the running observers once observer i has stopped
StoppedObservers(obs, i) == SubSeq(obs, 1, i - 1) \o SubSeq(obs, i + 1, Len(obs))

\* StopObserver, were the button left enabled (line 159 left out)
StopLeavesButton ==
    /\ running
    /\ stop_button = "normal"
    /\ observers' = StoppedObservers(observers, observer)
    /\ events' = {ev \in events : ev.obs # observer}
    /\ log_text' = LogInsert(log_text, Text("Monitoring stopped.", <<>>))
    /\ progress_label' = Text("Monitoring Stopped", <<>>)
    /\ observer' = 0
    /\ UNCHANGED <<running, terminating, disk, file_lock, workers, progress_bar,
                   stop_button>>

StopObserver ==
    /\ running
    /\ stop_button = "normal"
    /\ observers' = StoppedObservers(observers, observer)
    /\ events' = {ev \in events : ev.obs # observer}
    /\ log_text' = LogInsert(log_text, Text("Monitoring stopped.", <<>>))
    /\ progress_label' = Text("Monitoring Stopped", <<>>)
    /\ observer' = 0
    /\ stop_button' = "disabled"
    /\ UNCHANGED <<running, terminating, disk, file_lock, workers, progress_bar>>

(***************************************************************************)
(* terminate_application and the destroy it schedules.                     *)
(***************************************************************************)
TerminateApplication ==
    /\ running
    /\ log_text' = LogInsert(log_text, Text("Application is terminating...", <<>>))
    /\ terminating' = TRUE
    /\ UNCHANGED <<running, disk, file_lock, workers, observers, observer,
                   events, stop_button, progress_label, progress_bar>>

\* Destroy, were the ledger removed when the process ends
DestroyWipes ==
    /\ running
    /\ terminating
    /\ running' = FALSE
    /\ terminating' = FALSE
    /\ file_lock' = FALSE
    /\ workers' = EmptyBag
    /\ observers' = <<>>
    /\ observer' = 0
    /\ events' = {}
    /\ stop_button' = "disabled"
    /\ progress_label' = Ready
    /\ progress_bar' = FALSE
    /\ log_text' = NoLine
    /\ ledger' = NoLedger
    /\ UNCHANGED <<fs, transcripts>>

\* root.destroy ends mainloop and the process; the daemon threads die where
\* they are and the files stay as they are
Destroy ==
    /\ running
    /\ terminating
    /\ running' = FALSE
    /\ terminating' = FALSE
    /\ file_lock' = FALSE
    /\ workers' = EmptyBag
    /\ observers' = <<>>
    /\ observer' = 0
    /\ events' = {}
    /\ stop_button' = "disabled"
    /\ progress_label' = Ready
    /\ progress_bar' = FALSE
    /\ log_text' = NoLine
    /\ UNCHANGED disk

\* the script is started again: lines 166-205 build the window anew
Start ==
    /\ ~running
    /\ running' = TRUE
    /\ UNCHANGED <<terminating, disk, file_lock, workers, observers,
                   observer, events, ui>>

(***************************************************************************)
(* The file system outside the program: a file or directory appears, once  *)
(* the events of the one before it have been dispatched.  Every running    *)
(* observer whose watched tree holds it queues one event.  The transcripts *)
(* the program itself writes are kept apart in 'transcripts': their        *)
(* events are a directory and a .txt file, which on_created ignores.       *)
(***************************************************************************)
Watching(i, path) == Under(path, observers[i].directory)

CreateEntry(e) ==
    /\ e \in Entries \ fs
    /\ events = {}
    /\ \/ Dirname(e.path) = MediaRoot
       \/ [path |-> Dirname(e.path), is_directory |-> TRUE] \in fs
    /\ fs' = fs \cup {e}
    /\ events' = events \cup
         { [obs |-> i, src_path |-> e.path, is_directory |-> e.is_directory] :
             i \in {j \in 1..Len(observers) : Watching(j, e.path)} }
    /\ UNCHANGED <<running, terminating, ledger, transcripts, file_lock,
                   workers, observers, observer, ui>>

(***************************************************************************)
(* MediaFileHandler.on_created, run by the thread of an observer.          *)
(***************************************************************************)
\* Accepts with the is_directory test of line 104 left out
AcceptsDirectories(event) == EndsWith(Lower(event.src_path), SUPPORTED_FORMATS)

\* the condition of line 104
Accepts(event) ==
    ~event.is_directory /\ EndsWith(Lower(event.src_path), SUPPORTED_FORMATS)

\* the threads on_created starts for an event
Dispatched(event) == IF Accepts(event) THEN {event.src_path} ELSE {}

OnCreated(event) ==
    /\ running
    /\ event \in events
    /\ events' = events \ {event}
    /\ BagCardinality(workers) + Cardinality(Dispatched(event)) <= MaxWorkers
    /\ workers' = Started(workers, Dispatched(event))
    /\ UNCHANGED <<running, terminating, disk, file_lock, observers, observer, ui>>

(***************************************************************************)
(* transcribe_audio, run by each worker thread.  A worker is at one of     *)
(*   check         lines 53, 56 -> 23-25  abspath; os.path.exists of the   *)
(*                 ledger, then waiting for file_lock and open "r"         *)
(*   check_read    lines 26, 56-62  json.load, close, release; the skip,   *)
(*                 or the label and the bar set for processing             *)
(*   transcribe    lines 65-68      load_model and model.transcribe        *)
(*   write         lines 71-82                                             *)
(*   save          lines 85 -> 31 -> 23-25  as check                       *)
(*   save_read     lines 26, 32                                            *)
(*   save_open_w   lines 33-34      waiting for file_lock, then open "w"   *)
(*   save_dump     lines 35, 86     json.dump, close, release; the log     *)
(*   finally       lines 93-94, after which the thread is gone             *)
(* os.path.exists and the wait for the lock are one step: the ledger, once *)
(* it exists, is never removed, so the test has the same outcome at the    *)
(* moment the lock is taken.                                               *)
(***************************************************************************)
At(t, pc) == running /\ t \in Live /\ t.pc = pc

\* thread t becomes t2
Becomes(t, t2) == workers' = (workers (-) SetToBag({t})) (+) SetToBag({t2})

\* thread t moves to pc
Goto(t, pc) == Becomes(t, [t EXCEPT !.pc = pc])

\* thread t returns
Returns(t) == workers' = workers (-) SetToBag({t})

\* Acquire, were the lock not waited for
AcquireNoWait == file_lock' = TRUE

\* 'with file_lock:' entered
Acquire == ~file_lock /\ file_lock' = TRUE

\* 'with file_lock:' left
Release == file_lock' = FALSE

\* Raise without the except and finally clauses: the thread dies
RaiseUncaught(t) ==
    /\ Returns(t)
    /\ UNCHANGED log_text

\* the except clause of lines 88-89, then on to the finally clause
Raise(t) ==
    /\ log_text' = LogInsert(log_text, Text("Error processing", Basename(t.file_path)))
    /\ Goto(t, "finally")

\* lines 61-62
ShowProcessing(file_path) ==
    /\ progress_label' = Text("Processing", Basename(file_path))
    /\ progress_bar' = TRUE

\* line 53, then load_processed_files up to the open of line 25; the ledger
\* does not exist: the empty set is returned and lines 61-62 follow
Check(t) ==
    /\ At(t, "check")
    /\ IF LedgerExists
       THEN /\ Acquire
            /\ Becomes(t, [t EXCEPT !.file_path = Abspath(@), !.pc = "check_read"])
            /\ UNCHANGED <<progress_label, progress_bar>>
       ELSE /\ Becomes(t, [t EXCEPT !.file_path = Abspath(@), !.pc = "transcribe"])
            /\ ShowProcessing(Abspath(t.file_path))
            /\ UNCHANGED file_lock
    /\ UNCHANGED <<running, terminating, disk, observers, observer, events,
                   stop_button, log_text>>

\* AlreadyProcessed, were the name looked up instead of the absolute path
AlreadyProcessedByName(file_path, processed_files) ==
    Basename(file_path) \in processed_files

\* the test of line 56 on the set that was loaded
AlreadyProcessed(file_path, processed_files) == file_path \in processed_files

\* lines 57-58
Skip(t) ==
    /\ log_text' = LogInsert(log_text,
            Text("Skipped (already processed)", Basename(t.file_path)))
    /\ Goto(t, "finally")

CheckRead(t) ==
    /\ At(t, "check_read")
    /\ Release
    /\ IF ~LedgerLoads
       THEN Raise(t) /\ UNCHANGED <<progress_label, progress_bar>>
       ELSE IF AlreadyProcessed(t.file_path, SetOfList(ledger.content))
       THEN Skip(t) /\ UNCHANGED <<progress_label, progress_bar>>
       ELSE /\ Goto(t, "transcribe")
            /\ ShowProcessing(t.file_path)
            /\ UNCHANGED log_text
    /\ UNCHANGED <<running, terminating, disk, observers, observer, events,
                   stop_button>>

\* whisper.load_model and model.transcribe return, or one of them raises
Transcribe(t) ==
    /\ At(t, "transcribe")
    /\ \/ Goto(t, "write") /\ UNCHANGED log_text
       \/ Raise(t)
    /\ UNCHANGED <<running, terminating, disk, file_lock, observers, observer,
                   events, stop_button, progress_label, progress_bar>>

\* the transcript file written by lines 76-82
Transcript(file_path) ==
    [path |-> TranscriptPath(file_path),
     name |-> Basename(file_path),
     file_path |-> file_path]

\* open(transcript_path, "w") replaces what the file held
WriteFile(files, f) == {x \in files : x.path # f.path} \cup {f}

\* WriteTranscript, were the marking not preceded by the write of lines 71-82
WriteSkipped(t) ==
    /\ At(t, "write")
    /\ Goto(t, "save")
    /\ UNCHANGED <<running, terminating, disk, file_lock, observers, observer,
                   events, ui>>

\* makedirs and the write succeed, or makedirs or open raises
WriteTranscript(t) ==
    /\ At(t, "write")
    /\ \/ /\ transcripts' = WriteFile(transcripts, Transcript(t.file_path))
          /\ Goto(t, "save")
          /\ UNCHANGED log_text
       \/ /\ Raise(t)
          /\ UNCHANGED transcripts
    /\ UNCHANGED <<running, terminating, fs, ledger, file_lock, observers,
                   observer, events, stop_button, progress_label, progress_bar>>

\* line 32: the set save_processed_file is going to write
Added(processed_files, file_path) == processed_files \cup {Abspath(file_path)}

\* save_processed_file: load_processed_files up to the open of line 25
Save(t) ==
    /\ At(t, "save")
    /\ IF LedgerExists
       THEN /\ Acquire
            /\ Goto(t, "save_read")
       ELSE /\ Becomes(t, [t EXCEPT !.processed_files = Added({}, t.file_path),
                                    !.pc = "save_open_w"])
            /\ UNCHANGED file_lock
    /\ UNCHANGED <<running, terminating, disk, observers, observer, events, ui>>

SaveRead(t) ==
    /\ At(t, "save_read")
    /\ Release
    /\ IF LedgerLoads
       THEN /\ Becomes(t, [t EXCEPT
                  !.processed_files = Added(SetOfList(ledger.content), t.file_path),
                  !.pc = "save_open_w"])
            /\ UNCHANGED log_text
       ELSE Raise(t)
    /\ UNCHANGED <<running, terminating, disk, observers, observer, events,
                   stop_button, progress_label, progress_bar>>

\* open(PROCESSED_FILES_LOG, "w"): the file is there and empty
Truncated == [state |-> "truncated", content |-> <<>>]

SaveOpenW(t) ==
    /\ At(t, "save_open_w")
    /\ Acquire
    /\ ledger' = Truncated
    /\ Goto(t, "save_dump")
    /\ UNCHANGED <<running, terminating, fs, transcripts, observers, observer,
                   events, ui>>

\* what json.dump(list(processed_files), f) leaves in the file
Dumped(processed_files) ==
    [state |-> "complete", content |-> ListOf(processed_files)]

SaveDump(t) ==
    /\ At(t, "save_dump")
    /\ ledger' = Dumped(t.processed_files)
    /\ Release
    /\ Becomes(t, [t EXCEPT !.processed_files = {}, !.pc = "finally"])
    /\ log_text' = LogInsert(log_text, Text("Transcribed", Basename(t.file_path)))
    /\ UNCHANGED <<running, terminating, fs, transcripts, observers, observer,
                   events, stop_button, progress_label, progress_bar>>

\* the finally clause: the label and the bar are reset
ResetUi ==
    /\ progress_label' = Ready
    /\ progress_bar' = FALSE

Finally(t) ==
    /\ At(t, "finally")
    /\ ResetUi
    /\ Returns(t)
    /\ UNCHANGED <<running, terminating, disk, file_lock, observers, observer,
                   events, stop_button, log_text>>

Worker(t) ==
    \/ Check(t) \/ CheckRead(t) \/ Transcribe(t) \/ WriteTranscript(t)
    \/ Save(t) \/ SaveRead(t) \/ SaveOpenW(t) \/ SaveDump(t) \/ Finally(t)

(***************************************************************************)
(* The specification.                                                      *)
(***************************************************************************)
Next ==
    \/ \E directory \in Choices : SelectDirectory(directory)
    \/ StopObserver
    \/ TerminateApplication
    \/ Destroy
    \/ Start
    \/ \E e \in Entries : CreateEntry(e)
    \/ \E event \in events : OnCreated(event)
    \/ \E t \in Live : Worker(t)

Spec == Init /\ [][Next]_vars


(***************************************************************************)
(* Vocabulary of the properties.                                           *)
(***************************************************************************)
\* the set load_processed_files returns from the file as it is
LedgerSet == IF ledger.state = "complete" THEN SetOfList(ledger.content) ELSE {}

\* the name, lower-cased, ends in one of the supported extensions
SupportedName(p) ==
    \E k \in 1..Len(SUPPORTED_FORMATS) :
        LET x == SUPPORTED_FORMATS[k]
        IN  /\ Len(p) >= Len(x)
            /\ \A i \in 1..Len(x) : LowerChar(p[Len(p) - Len(x) + i]) = x[i]

\* a thread as it is when it has just been started for path p
Fresh(p) == [file_path |-> p, pc |-> "check", processed_files |-> {}]

\* thread t has taken a step, the process staying alive
Stepped(t) == running /\ running' /\ CopiesIn(t, workers') < CopiesIn(t, workers)

\* thread t has become t2 and no other thread has changed
Became(t, t2) == workers' = (workers (-) SetToBag({t})) (+) SetToBag({t2})

\* model.transcribe has returned in thread t
HasTranscribed(t) == t.pc \in {"write", "save", "save_read", "save_open_w", "save_dump"}

\* thread t has the ledger open
InFile(t) == t.pc \in {"check_read", "save_read", "save_dump"}

(***************************************************************************)
(* C1: the model is invoked at most once for a media path: no two threads  *)
(* started for the same absolute path both get a result from               *)
(* model.transcribe.                                                       *)
(***************************************************************************)
C1_TranscribedOnce ==
    \A t1, t2 \in Live :
        (HasTranscribed(t1) /\ HasTranscribed(t2) /\ t1.file_path = t2.file_path)
            => (t1 = t2 /\ CopiesIn(t1, workers) = 1)

(***************************************************************************)
(* C2: no lost ledger update: whenever a thread truncates the ledger to    *)
(* rewrite it, the set it is about to dump holds every path the ledger     *)
(* held, so a path recorded earlier is never lost.                         *)
(***************************************************************************)
C2_NoLostUpdate ==
    [][(ledger.state = "complete" /\ ledger'.state = "truncated")
          => \E t \in BagToSet(workers') :
                 /\ t.pc = "save_dump"
                 /\ SetOfList(ledger.content) \subseteq t.processed_files]_vars

(***************************************************************************)
(* C3: a thread whose check finds its absolute path in the ledger goes     *)
(* straight to the finally clause (the model is not invoked), writes no    *)
(* transcript, leaves the ledger as it is and logs                         *)
(* 'Skipped (already processed): <name>'.                                  *)
(***************************************************************************)
C3_SkipsProcessed ==
    [][\A t \in Live :
          (Stepped(t) /\ t.pc = "check_read" /\ t.file_path \in LedgerSet)
             => /\ Became(t, [t EXCEPT !.pc = "finally"])
                /\ transcripts' = transcripts
                /\ ledger' = ledger
                /\ log_text'.kind = "Skipped (already processed)"
                /\ log_text'.arg = Basename(t.file_path)]_vars

C3_Witness ==
    /\ log_text.kind = "Skipped (already processed)"
    /\ \E t \in Live : t.pc = "finally" /\ t.file_path \in LedgerSet

(***************************************************************************)
(* C4: once stop_observer has returned, and until select_directory runs    *)
(* again (the Stop Monitoring button is disabled), no watch started by the *)
(* application is still running.                                           *)
(***************************************************************************)
C4_StopCancelsWatches ==
    (running /\ stop_button = "disabled") => observers = <<>>

(***************************************************************************)
(* C5: a run of select_directory that scans starts exactly one thread for  *)
(* each file of the tree with a supported extension whose absolute path is *)
(* not in the ledger, and none for any other file.                         *)
(***************************************************************************)
C5_Scanned(directory) ==
    {e.path : e \in {x \in fs : /\ ~x.is_directory
                               /\ Under(x.path, directory)
                               /\ SupportedName(x.path)
                               /\ x.path \notin LedgerSet}}

C5_OneWorkerPerNewFile ==
    [][Len(observers') > Len(observers)
          => workers' = workers (+)
                SetToBag({Fresh(p) : p \in C5_Scanned(observers'[Len(observers')].directory)})]_vars

C5_Witness ==
    /\ log_text.kind = "Scanning directory"
    /\ \E t \in Live : t.pc = "check" /\ t.file_path \notin LedgerSet
    /\ \E e \in fs : ~e.is_directory /\ e.path \in LedgerSet
    /\ \E e \in fs : ~e.is_directory /\ ~SupportedName(e.path)

(***************************************************************************)
(* C6: when load_model, model.transcribe or the writing of the transcript  *)
(* raises, the thread logs 'Error processing <name>', leaves the ledger    *)
(* and every other thread and the observers as they are and goes on to the *)
(* finally clause; and the finally clause sets the label to 'Ready', stops *)
(* the bar and ends the thread, touching nothing else.                     *)
(***************************************************************************)
C6_Next(pc) == IF pc = "transcribe" THEN "write" ELSE "save"

C6_ErrorsCaught ==
    [][\A t \in Live :
          /\ (Stepped(t) /\ t.pc \in {"transcribe", "write"})
                => \/ Became(t, [t EXCEPT !.pc = C6_Next(t.pc)])
                   \/ /\ Became(t, [t EXCEPT !.pc = "finally"])
                      /\ log_text'.kind = "Error processing"
                      /\ log_text'.arg = Basename(t.file_path)
                      /\ UNCHANGED <<ledger, transcripts, observers, observer, events>>
          /\ (Stepped(t) /\ t.pc = "finally")
                => /\ workers' = workers (-) SetToBag({t})
                   /\ progress_label' = Text("Ready", <<>>)
                   /\ progress_bar' = FALSE
                   /\ UNCHANGED <<ledger, transcripts, observers, observer, events>>]_vars

C6_Witness ==
    /\ log_text.kind = "Error processing"
    /\ \E t \in Live : /\ t.pc = "finally"
                       /\ log_text.arg = Basename(t.file_path)
                       /\ t.file_path \notin LedgerSet
    /\ \E t \in Live : t.pc \notin {"finally", "check"}
    /\ observers # <<>>

(***************************************************************************)
(* C7: at most one thread has processed_files.json open, for reading or    *)
(* for writing, and file_lock is held exactly while one has.               *)
(***************************************************************************)
C7_OneThreadInFile ==
    LET inside == {t \in Live : InFile(t)}
    IN  /\ Cardinality(inside) <= 1
        /\ \A t \in inside : CopiesIn(t, workers) = 1
        /\ file_lock <=> inside # {}

C7_Witness ==
    /\ ledger.state = "truncated"
    /\ \E t \in Live : t.pc = "save_dump"
    /\ \E t \in Live : t.pc \in {"check", "save", "save_open_w"}

C9_FanOut ==
    [][\A ev \in events :
          (events' = events \ {ev} /\ observers' = observers /\ running')
             => workers' = IF ~ev.is_directory /\ SupportedName(ev.src_path)
                           THEN workers (+) SetToBag({Fresh(ev.src_path)})
                           ELSE workers]_vars

C9_Witness ==
    /\ log_text.kind = "No media files found"
    /\ events = {}
    /\ \E t \in Live : t.pc = "check"
    /\ \E e \in fs : e.is_directory /\ SupportedName(e.path)

(***************************************************************************)
(* C10: while a thread is transcribing, the label reads 'Processing: ...'  *)
(* and the bar is running.                                                 *)
(***************************************************************************)
C10_ProgressShown ==
    (\E t \in Live : t.pc = "transcribe")
        => (progress_label.kind = "Processing" /\ progress_bar)

(***************************************************************************)
(* C11: a path is marked only after its transcript is written.  A thread   *)
(* passes on to save_processed_file only by the step that leaves its       *)
(* transcript, whole and naming its file, at                               *)
(* <media dir>/Transcriptions/<stem>_transcription.txt; and every path in  *)
(* the ledger, or in a set a thread is about to dump into it, has a        *)
(* transcript file at that place.                                          *)
(***************************************************************************)
C11_Marking == {"save", "save_read", "save_open_w", "save_dump"}

\* the paths of the ledger, or of the set being dumped into it
Recorded ==
    LedgerSet \cup UNION {t.processed_files : t \in {u \in Live : u.pc = "save_dump"}}

C11_MarkAfterWrite ==
    /\ [](\A p \in Recorded : \E x \in transcripts : x.path = TranscriptPath(p))
    /\ [][\A t \in Live :
             (/\ Stepped(t)
              /\ t.pc \notin C11_Marking
              /\ \E t2 \in BagToSet(workers') : t2.pc \in C11_Marking /\ Became(t, t2))
                => /\ t.pc = "write"
                   /\ [path      |-> TranscriptPath(t.file_path),
                       name      |-> Basename(t.file_path),
                       file_path |-> t.file_path] \in transcripts']_vars

C11_Witness ==
    /\ \E p \in LedgerSet : \E x \in transcripts : x.path = TranscriptPath(p)
    /\ \E t \in Live : /\ t.pc = "save_open_w"
                       /\ t.file_path \notin LedgerSet
                       /\ LedgerSet \subseteq t.processed_files
                       /\ \E x \in transcripts : x.file_path = t.file_path

(***************************************************************************)
(* C12: at most one Observer is running, the global 'observer' refers to   *)
(* it, and a created file is queued as at most one event, so that it       *)
(* starts at most one thread.                                              *)
(***************************************************************************)
C12_AtMostOneObserver ==
    /\ Len(observers) <= 1
    /\ observers # <<>> => observer = 1
    /\ \A e1, e2 \in events : e1.src_path = e2.src_path => e1 = e2

(***************************************************************************)
(* C13: whenever the Stop Monitoring button is enabled, the global         *)
(* 'observer' is bound to an Observer that is started and not stopped; and *)
(* every run of stop_observer (the button goes from enabled to disabled in *)
(* a live process) stops exactly that Observer, which was running.         *)
(***************************************************************************)
C13_ButtonHasObserver ==
    /\ [](stop_button = "normal" => observer \in 1..Len(observers))
    /\ [][(running' /\ stop_button = "normal" /\ stop_button' = "disabled")
            => /\ observer \in 1..Len(observers)
               /\ Len(observers') = Len(observers) - 1
               /\ \A i \in 1..Len(observers') :
                     observers'[i] = observers[IF i < observer THEN i ELSE i + 1]]_vars

C13_Witness ==
    /\ stop_button = "normal"
    /\ observer = 1
    /\ \E ev \in events : ev.obs = observer
    /\ Len(observers) = 1
    /\ progress_label.kind = "Processing"

(***************************************************************************)
(* C14: when a thread returns (the step that ends its finally clause),     *)
(* its path is in the ledger, as it is for a file transcribed or skipped,  *)
(* or the log holds an 'Error processing' line for its file.  A ledger     *)
(* that another thread is rewriting at that moment counts with the set     *)
(* being dumped into it.                                                   *)
(***************************************************************************)
C14_ResolvedAtReturn ==
    [][\A t \in Live :
          (Stepped(t) /\ t.pc = "finally")
             => \/ t.file_path \in Recorded
                \/ Basename(t.file_path) \in log_text.errors]_vars

(***************************************************************************)
(* C15: whenever the process has ended, with its daemon threads killed     *)
(* where they were, the ledger on disk is absent or a complete JSON list,  *)
(* so that the next start can load it.                                     *)
(***************************************************************************)
C15_LedgerReadable ==
    ~running => ledger.state \in {"absent", "complete"}

(***************************************************************************)
(* C16: two distinct paths of the ledger have distinct transcript paths,   *)
(* and every path of the ledger has, at its transcript path, a transcript  *)
(* whose 'File Path:' header names it.                                     *)
(***************************************************************************)
C16_OwnTranscript ==
    /\ \A p, q \in LedgerSet : p # q => TranscriptPath(p) # TranscriptPath(q)
    /\ \A p \in LedgerSet :
          \E x \in transcripts : x.path = TranscriptPath(p) /\ x.file_path = p

====
